---- MODULE Spec2Model ----
(***************************************************************************)
(* Readers-writers locks of the repository, one state machine per policy:  *)
(*   WP   writer preference            readers_writers.cpp                 *)
(*   EDU  writer preference, one cv    readers_writers_educational.cpp     *)
(*   RP   reader preference            readers_writers_readers_priority.cpp*)
(*   FAIR FIFO queue of requests       readers_writers_fair.cpp            *)
(*   MON  monitor with two conditions  readers_writers_monitor.cpp         *)
(*   SEM  three POSIX semaphores       readers_writers_semaphore.cpp       *)
(* A thread is a reader or a writer that calls lock / unlock in matched    *)
(* pairs.  One action runs a thread from one point where it can block (or  *)
(* where other threads can observe it) to the next.                        *)
(***************************************************************************)
EXTENDS Integers, Sequences, FiniteSets, TLC

\* ---------------------------------------------------------------- bounds
NumReaders == 2
NumWriters == 2
MaxReq == 2

Readers == 1..NumReaders
Writers == (NumReaders + 1)..(NumReaders + NumWriters)
Threads == Readers \cup Writers

\* No thread: the value of a free std::mutex.
NoThread == 0
\* budget value of a thread that keeps issuing requests for ever.
Unlimited == 0 - 1


VARIABLES
    policy,          \* which of the six lock classes this run uses
    pc,              \* per thread: where it is in its current call
    budget,          \* per thread: requests it still issues (Unlimited: any)
    mtx,             \* holder of mtx / monitor_mutex, or NoThread
    resource_mutex,  \* holder of resource_mutex, or NoThread
    reader_count,    \* int reader_count
    active_readers,  \* int active_readers (FAIR)
    writer_active,   \* bool writer_active
    waiting_writers, \* int waiting_writers
    waiting_readers, \* int waiting_readers (MON)
    request_queue,   \* std::queue of pending requests, by owning thread (FAIR)
    granted,         \* per thread: Request::granted of its live request (FAIR)
    mutex,           \* sem_t mutex       (SEM), its value
    write_mutex,     \* sem_t write_mutex (SEM), its value
    read_mutex,      \* sem_t read_mutex  (SEM), its value
    writer_waiting,  \* bool writer_waiting (SEM)
    should_wait,     \* per thread: local should_wait of reader_lock (SEM)
    ahead,           \* history (FAIR): per thread, earlier requests not yet seen granted
    batch,           \* history (FAIR): requests granted by the latest process_queue
    owed,            \* history (FAIR): per thread, releases it may still have to wait for
    cohort,          \* history (WP): readers that were blocked when the last writer released
    snapshot         \* values returned by the latest get_state / queue_size call

vars == <<policy, pc, budget, mtx, resource_mutex, reader_count, active_readers,
          writer_active, waiting_writers, waiting_readers, request_queue, granted,
          mutex, write_mutex, read_mutex, writer_waiting, should_wait,
          ahead, batch, owed, cohort, snapshot>>

cvVars == <<waiting_readers>>
fairVars == <<active_readers, request_queue, granted, ahead, batch, owed>>
semVars == <<mutex, write_mutex, read_mutex, writer_waiting, should_wait>>

\* ---------------------------------------------------------------- helpers

Range(s) == {s[i] : i \in 1..Len(s)}

\* The worker loop: operations_per_thread calls per thread.
CanIssue(t) == budget[t] # 0
Issue(t) == [budget EXCEPT ![t] = IF budget[t] > 0 THEN budget[t] - 1 ELSE budget[t]]

\* std::mutex::unlock() called by thread t on a mutex whose holder is m.
\* Called by the holder it frees the mutex.  Called by any other thread it is
\* undefined behaviour: the call is either honoured (the mutex becomes free)
\* or rejected (the mutex keeps its holder).
MutexUnlock(m, t) == IF m = t THEN {NoThread} ELSE {NoThread, m}

\* A thread blocked in condition_variable::wait, after a notify reaches it.
Woken(label) == IF label = "r_wait" THEN "r_woken"
                ELSE IF label = "w_wait" THEN "w_woken" ELSE label

\* pc function f after the threads of S were notified.
Wake(f, S) == [u \in Threads |-> IF u \in S THEN Woken(f[u]) ELSE f[u]]

WaitingReaders == {u \in Readers : pc[u] = "r_wait"}
WaitingWriters == {u \in Writers : pc[u] = "w_wait"}

\* The readers inside read_lock that have not passed the wait predicate.
BlockedReaders == {u \in Readers : pc[u] \in {"r_wait", "r_woken"}}

\* notify_one on a condition variable whose waiters are S: no waiter, or one.
NotifyOne(S) == IF S = {} THEN {{}} ELSE {{u} : u \in S}

InitCommon ==
    /\ pc = [t \in Threads |-> "idle"]
    /\ mtx = NoThread
    /\ resource_mutex = NoThread
    /\ reader_count = 0
    /\ active_readers = 0
    /\ writer_active = FALSE
    /\ waiting_writers = 0
    /\ waiting_readers = 0
    /\ request_queue = << >>
    /\ granted = [t \in Threads |-> FALSE]
    /\ mutex = 1
    /\ write_mutex = 1
    /\ read_mutex = 1
    /\ writer_waiting = FALSE
    /\ should_wait = [t \in Threads |-> FALSE]
    /\ ahead = [t \in Threads |-> {}]
    /\ batch = {}
    /\ owed = [t \in Threads |-> 0]
    /\ cohort = {}
    /\ snapshot = << >>

\* A spurious wakeup of condition_variable::wait: the waiter re-checks.
SpuriousWakeup(t) ==
    /\ pc[t] \in {"r_wait", "w_wait"}
    /\ pc' = [pc EXCEPT ![t] = Woken(pc[t])]
    /\ UNCHANGED <<policy, cohort, snapshot, budget, mtx, resource_mutex, reader_count, writer_active,
                   waiting_writers, cvVars, fairVars, semVars>>

\* ------------------------------------------- WP: readers_writers.cpp

\* (mutation) read_lock that does not look at waiting_writers
WP_ReadPred_IgnoreWaiting == ~writer_active
\* (mutation) read_lock that lets one reader in at a time
WP_ReadPred_OneReader == ~writer_active /\ waiting_writers = 0 /\ reader_count = 0
WP_ReadPred == ~writer_active /\ waiting_writers = 0
\* (mutation) write_lock that forgets to wait for the readers to leave
WP_WritePred_NoReaderCheck == ~writer_active
WP_WritePred == reader_count = 0 /\ ~writer_active

\* read_lock from the predicate check on, mtx held.
WP_ReadAdmit(t) ==
    IF WP_ReadPred
    THEN /\ reader_count' = reader_count + 1
         /\ IF reader_count + 1 = 1
            THEN /\ pc' = [pc EXCEPT ![t] = "r_reslock"]
                 /\ mtx' = t
            ELSE /\ pc' = [pc EXCEPT ![t] = "reading"]
                 /\ mtx' = NoThread
    ELSE /\ pc' = [pc EXCEPT ![t] = "r_wait"]
         /\ mtx' = NoThread
         /\ UNCHANGED reader_count

WP_read_lock(t) ==
    /\ policy = "WP" /\ t \in Readers
    /\ pc[t] = "idle" /\ CanIssue(t)
    /\ mtx = NoThread
    /\ budget' = Issue(t)
    /\ WP_ReadAdmit(t)
    /\ UNCHANGED <<policy, cohort, snapshot, resource_mutex, writer_active, waiting_writers,
                   cvVars, fairVars, semVars>>

WP_read_recheck(t) ==
    /\ policy = "WP" /\ t \in Readers
    /\ pc[t] = "r_woken"
    /\ mtx = NoThread
    /\ WP_ReadAdmit(t)
    /\ UNCHANGED <<policy, cohort, snapshot, budget, resource_mutex, writer_active, waiting_writers,
                   cvVars, fairVars, semVars>>

\* The first reader's resource_mutex.lock(), called with mtx held.
WP_read_reslock(t) ==
    /\ policy = "WP"
    /\ pc[t] = "r_reslock"
    /\ resource_mutex = NoThread
    /\ resource_mutex' = t
    /\ mtx' = NoThread
    /\ pc' = [pc EXCEPT ![t] = "reading"]
    /\ UNCHANGED <<policy, cohort, snapshot, budget, reader_count, writer_active, waiting_writers,
                   cvVars, fairVars, semVars>>

WP_read_unlock(t) ==
    /\ policy = "WP" /\ t \in Readers
    /\ pc[t] = "reading"
    /\ mtx = NoThread
    /\ reader_count' = reader_count - 1
    /\ IF reader_count - 1 = 0
       THEN /\ resource_mutex' \in MutexUnlock(resource_mutex, t)
            /\ pc' = [Wake(pc, WaitingReaders \cup WaitingWriters) EXCEPT ![t] = "idle"]
       ELSE /\ pc' = [pc EXCEPT ![t] = "idle"]
            /\ UNCHANGED resource_mutex
    /\ UNCHANGED <<policy, cohort, snapshot, budget, mtx, writer_active, waiting_writers,
                   cvVars, fairVars, semVars>>

\* (mutation) write_lock that forgets waiting_writers-- on admission
WP_WriteAdmit_NoDecrement(t, ww) ==
    IF WP_WritePred
    THEN /\ writer_active' = TRUE
         /\ waiting_writers' = ww
         /\ pc' = [pc EXCEPT ![t] = "w_reslock"]
    ELSE /\ waiting_writers' = ww
         /\ pc' = [pc EXCEPT ![t] = "w_wait"]
         /\ UNCHANGED writer_active

\* write_lock from the predicate check on, mtx held; waiting_writers counts t.
WP_WriteAdmit(t, ww) ==
    IF WP_WritePred
    THEN /\ writer_active' = TRUE
         /\ waiting_writers' = ww - 1
         /\ pc' = [pc EXCEPT ![t] = "w_reslock"]
    ELSE /\ waiting_writers' = ww
         /\ pc' = [pc EXCEPT ![t] = "w_wait"]
         /\ UNCHANGED writer_active

WP_write_lock(t) ==
    /\ policy = "WP" /\ t \in Writers
    /\ pc[t] = "idle" /\ CanIssue(t)
    /\ mtx = NoThread
    /\ budget' = Issue(t)
    /\ WP_WriteAdmit(t, waiting_writers + 1)
    /\ cohort' = {}
    /\ UNCHANGED <<policy, snapshot, mtx, resource_mutex, reader_count,
                   cvVars, fairVars, semVars>>

WP_write_recheck(t) ==
    /\ policy = "WP" /\ t \in Writers
    /\ pc[t] = "w_woken"
    /\ mtx = NoThread
    /\ WP_WriteAdmit(t, waiting_writers)
    /\ UNCHANGED <<policy, cohort, snapshot, budget, mtx, resource_mutex, reader_count,
                   cvVars, fairVars, semVars>>

\* The writer's resource_mutex.lock(), called after mtx was released.
WP_write_reslock(t) ==
    /\ policy = "WP"
    /\ pc[t] = "w_reslock"
    /\ resource_mutex = NoThread
    /\ resource_mutex' = t
    /\ pc' = [pc EXCEPT ![t] = "writing"]
    /\ UNCHANGED <<policy, cohort, snapshot, budget, mtx, reader_count, writer_active, waiting_writers,
                   cvVars, fairVars, semVars>>

\* write_unlock, first part: writer_active = false under mtx.
WP_write_unlock(t) ==
    /\ policy = "WP" /\ t \in Writers
    /\ pc[t] = "writing"
    /\ mtx = NoThread
    /\ writer_active' = FALSE
    /\ pc' = [pc EXCEPT ![t] = "w_resunlock"]
    /\ cohort' = IF waiting_writers = 0 THEN BlockedReaders ELSE {}
    /\ UNCHANGED <<policy, snapshot, budget, mtx, resource_mutex, reader_count, waiting_writers,
                   cvVars, fairVars, semVars>>

\* write_unlock, second part: resource_mutex.unlock() outside mtx.
WP_write_resunlock(t) ==
    /\ policy = "WP"
    /\ pc[t] = "w_resunlock"
    /\ resource_mutex' \in MutexUnlock(resource_mutex, t)
    /\ pc' = [pc EXCEPT ![t] = "w_notify"]
    /\ UNCHANGED <<policy, cohort, snapshot, budget, mtx, reader_count, writer_active, waiting_writers,
                   cvVars, fairVars, semVars>>

\* write_unlock, last part: write_cv.notify_all().
WP_write_notify(t) ==
    /\ policy = "WP"
    /\ pc[t] = "w_notify"
    /\ pc' = [Wake(pc, WaitingReaders \cup WaitingWriters) EXCEPT ![t] = "idle"]
    /\ UNCHANGED <<policy, cohort, snapshot, budget, mtx, resource_mutex, reader_count, writer_active,
                   waiting_writers, cvVars, fairVars, semVars>>

WP_spurious(t) == policy = "WP" /\ SpuriousWakeup(t)

NextWP ==
    \E t \in Threads :
        \/ WP_read_lock(t)
        \/ WP_read_recheck(t)
        \/ WP_read_reslock(t)
        \/ WP_read_unlock(t)
        \/ WP_write_lock(t)
        \/ WP_write_recheck(t)
        \/ WP_write_reslock(t)
        \/ WP_write_unlock(t)
        \/ WP_write_resunlock(t)
        \/ WP_write_notify(t)
        \/ WP_spurious(t)

InitWP == policy = "WP" /\ budget = [t \in Threads |-> Unlimited] /\ InitCommon
SpecWP == InitWP /\ [][NextWP]_vars

\* ------------------------------------ EDU: readers_writers_educational.cpp

EDU_ReadPred == ~writer_active /\ waiting_writers = 0
EDU_WritePred == reader_count = 0 /\ ~writer_active

EDU_ReadAdmit(t) ==
    IF EDU_ReadPred
    THEN /\ reader_count' = reader_count + 1
         /\ pc' = [pc EXCEPT ![t] = "reading"]
    ELSE /\ pc' = [pc EXCEPT ![t] = "r_wait"]
         /\ UNCHANGED reader_count

EDU_read_lock(t) ==
    /\ policy = "EDU" /\ t \in Readers
    /\ pc[t] = "idle" /\ CanIssue(t)
    /\ mtx = NoThread
    /\ budget' = Issue(t)
    /\ EDU_ReadAdmit(t)
    /\ UNCHANGED <<policy, cohort, snapshot, mtx, resource_mutex, writer_active, waiting_writers,
                   cvVars, fairVars, semVars>>

EDU_read_recheck(t) ==
    /\ policy = "EDU" /\ t \in Readers
    /\ pc[t] = "r_woken"
    /\ mtx = NoThread
    /\ EDU_ReadAdmit(t)
    /\ UNCHANGED <<policy, cohort, snapshot, budget, mtx, resource_mutex, writer_active, waiting_writers,
                   cvVars, fairVars, semVars>>

EDU_read_unlock(t) ==
    /\ policy = "EDU" /\ t \in Readers
    /\ pc[t] = "reading"
    /\ mtx = NoThread
    /\ reader_count' = reader_count - 1
    /\ IF reader_count - 1 = 0 /\ waiting_writers > 0
       THEN pc' = [Wake(pc, WaitingReaders \cup WaitingWriters) EXCEPT ![t] = "idle"]
       ELSE pc' = [pc EXCEPT ![t] = "idle"]
    /\ UNCHANGED <<policy, cohort, snapshot, budget, mtx, resource_mutex, writer_active, waiting_writers,
                   cvVars, fairVars, semVars>>

EDU_WriteAdmit(t, ww) ==
    IF EDU_WritePred
    THEN /\ waiting_writers' = ww - 1
         /\ writer_active' = TRUE
         /\ pc' = [pc EXCEPT ![t] = "writing"]
    ELSE /\ waiting_writers' = ww
         /\ pc' = [pc EXCEPT ![t] = "w_wait"]
         /\ UNCHANGED writer_active

EDU_write_lock(t) ==
    /\ policy = "EDU" /\ t \in Writers
    /\ pc[t] = "idle" /\ CanIssue(t)
    /\ mtx = NoThread
    /\ budget' = Issue(t)
    /\ EDU_WriteAdmit(t, waiting_writers + 1)
    /\ UNCHANGED <<policy, cohort, snapshot, mtx, resource_mutex, reader_count,
                   cvVars, fairVars, semVars>>

EDU_write_recheck(t) ==
    /\ policy = "EDU" /\ t \in Writers
    /\ pc[t] = "w_woken"
    /\ mtx = NoThread
    /\ EDU_WriteAdmit(t, waiting_writers)
    /\ UNCHANGED <<policy, cohort, snapshot, budget, mtx, resource_mutex, reader_count,
                   cvVars, fairVars, semVars>>

EDU_write_unlock(t) ==
    /\ policy = "EDU" /\ t \in Writers
    /\ pc[t] = "writing"
    /\ mtx = NoThread
    /\ writer_active' = FALSE
    /\ pc' = [Wake(pc, WaitingReaders \cup WaitingWriters) EXCEPT ![t] = "idle"]
    /\ UNCHANGED <<policy, cohort, snapshot, budget, mtx, resource_mutex, reader_count, waiting_writers,
                   cvVars, fairVars, semVars>>

EDU_spurious(t) == policy = "EDU" /\ SpuriousWakeup(t)

NextEDU ==
    \E t \in Threads :
        \/ EDU_read_lock(t)
        \/ EDU_read_recheck(t)
        \/ EDU_read_unlock(t)
        \/ EDU_write_lock(t)
        \/ EDU_write_recheck(t)
        \/ EDU_write_unlock(t)
        \/ EDU_spurious(t)

InitEDU == policy = "EDU" /\ budget = [t \in Threads |-> Unlimited] /\ InitCommon
SpecEDU == InitEDU /\ [][NextEDU]_vars

\* ------------------------------- RP: readers_writers_readers_priority.cpp

\* (mutation) read_lock that does not wait for the active writer
RP_ReadPred_NoWriterCheck == TRUE
\* (mutation) read_lock that also waits while a writer is waiting
RP_ReadPred_WritersFirst ==
    ~writer_active /\ ~\E w \in Writers : pc[w] \in {"w_wait", "w_woken"}
\* (mutation) read_lock that lets one reader in at a time
RP_ReadPred_OneReader == ~writer_active /\ reader_count = 0
RP_ReadPred == ~writer_active
RP_WritePred == reader_count = 0 /\ ~writer_active

RP_ReadAdmit(t) ==
    IF RP_ReadPred
    THEN /\ reader_count' = reader_count + 1
         /\ IF reader_count + 1 = 1
            THEN /\ pc' = [pc EXCEPT ![t] = "r_reslock"]
                 /\ mtx' = t
            ELSE /\ pc' = [pc EXCEPT ![t] = "reading"]
                 /\ mtx' = NoThread
    ELSE /\ pc' = [pc EXCEPT ![t] = "r_wait"]
         /\ mtx' = NoThread
         /\ UNCHANGED reader_count

RP_read_lock(t) ==
    /\ policy = "RP" /\ t \in Readers
    /\ pc[t] = "idle" /\ CanIssue(t)
    /\ mtx = NoThread
    /\ budget' = Issue(t)
    /\ RP_ReadAdmit(t)
    /\ UNCHANGED <<policy, cohort, snapshot, resource_mutex, writer_active, waiting_writers,
                   cvVars, fairVars, semVars>>

RP_read_recheck(t) ==
    /\ policy = "RP" /\ t \in Readers
    /\ pc[t] = "r_woken"
    /\ mtx = NoThread
    /\ RP_ReadAdmit(t)
    /\ UNCHANGED <<policy, cohort, snapshot, budget, resource_mutex, writer_active, waiting_writers,
                   cvVars, fairVars, semVars>>

RP_read_reslock(t) ==
    /\ policy = "RP"
    /\ pc[t] = "r_reslock"
    /\ resource_mutex = NoThread
    /\ resource_mutex' = t
    /\ mtx' = NoThread
    /\ pc' = [pc EXCEPT ![t] = "reading"]
    /\ UNCHANGED <<policy, cohort, snapshot, budget, reader_count, writer_active, waiting_writers,
                   cvVars, fairVars, semVars>>

\* The last reader unlocks resource_mutex and notifies one writer.
RP_read_unlock(t) ==
    /\ policy = "RP" /\ t \in Readers
    /\ pc[t] = "reading"
    /\ mtx = NoThread
    /\ reader_count' = reader_count - 1
    /\ IF reader_count - 1 = 0
       THEN /\ resource_mutex' \in MutexUnlock(resource_mutex, t)
            /\ \E S \in NotifyOne(WaitingWriters) :
                   pc' = [Wake(pc, S) EXCEPT ![t] = "idle"]
       ELSE /\ pc' = [pc EXCEPT ![t] = "idle"]
            /\ UNCHANGED resource_mutex
    /\ UNCHANGED <<policy, cohort, snapshot, budget, mtx, writer_active, waiting_writers,
                   cvVars, fairVars, semVars>>

RP_WriteAdmit(t) ==
    IF RP_WritePred
    THEN /\ writer_active' = TRUE
         /\ pc' = [pc EXCEPT ![t] = "w_reslock"]
    ELSE /\ pc' = [pc EXCEPT ![t] = "w_wait"]
         /\ UNCHANGED writer_active

RP_write_lock(t) ==
    /\ policy = "RP" /\ t \in Writers
    /\ pc[t] = "idle" /\ CanIssue(t)
    /\ mtx = NoThread
    /\ budget' = Issue(t)
    /\ RP_WriteAdmit(t)
    /\ UNCHANGED <<policy, cohort, snapshot, mtx, resource_mutex, reader_count, waiting_writers,
                   cvVars, fairVars, semVars>>

RP_write_recheck(t) ==
    /\ policy = "RP" /\ t \in Writers
    /\ pc[t] = "w_woken"
    /\ mtx = NoThread
    /\ RP_WriteAdmit(t)
    /\ UNCHANGED <<policy, cohort, snapshot, budget, mtx, resource_mutex, reader_count, waiting_writers,
                   cvVars, fairVars, semVars>>

RP_write_reslock(t) ==
    /\ policy = "RP"
    /\ pc[t] = "w_reslock"
    /\ resource_mutex = NoThread
    /\ resource_mutex' = t
    /\ pc' = [pc EXCEPT ![t] = "writing"]
    /\ UNCHANGED <<policy, cohort, snapshot, budget, mtx, reader_count, writer_active, waiting_writers,
                   cvVars, fairVars, semVars>>

RP_write_unlock(t) ==
    /\ policy = "RP" /\ t \in Writers
    /\ pc[t] = "writing"
    /\ mtx = NoThread
    /\ writer_active' = FALSE
    /\ pc' = [pc EXCEPT ![t] = "w_resunlock"]
    /\ UNCHANGED <<policy, cohort, snapshot, budget, mtx, resource_mutex, reader_count, waiting_writers,
                   cvVars, fairVars, semVars>>

RP_write_resunlock(t) ==
    /\ policy = "RP"
    /\ pc[t] = "w_resunlock"
    /\ resource_mutex' \in MutexUnlock(resource_mutex, t)
    /\ pc' = [pc EXCEPT ![t] = "w_notify_r"]
    /\ UNCHANGED <<policy, cohort, snapshot, budget, mtx, reader_count, writer_active, waiting_writers,
                   cvVars, fairVars, semVars>>

\* reader_cv.notify_all()
RP_write_notify_readers(t) ==
    /\ policy = "RP"
    /\ pc[t] = "w_notify_r"
    /\ pc' = [Wake(pc, WaitingReaders) EXCEPT ![t] = "w_notify_w"]
    /\ UNCHANGED <<policy, cohort, snapshot, budget, mtx, resource_mutex, reader_count, writer_active,
                   waiting_writers, cvVars, fairVars, semVars>>

\* writer_cv.notify_one()
RP_write_notify_writer(t) ==
    /\ policy = "RP"
    /\ pc[t] = "w_notify_w"
    /\ \E S \in NotifyOne(WaitingWriters) :
           pc' = [Wake(pc, S) EXCEPT ![t] = "idle"]
    /\ UNCHANGED <<policy, cohort, snapshot, budget, mtx, resource_mutex, reader_count, writer_active,
                   waiting_writers, cvVars, fairVars, semVars>>

RP_spurious(t) == policy = "RP" /\ SpuriousWakeup(t)

NextRP ==
    \E t \in Threads :
        \/ RP_read_lock(t)
        \/ RP_read_recheck(t)
        \/ RP_read_reslock(t)
        \/ RP_read_unlock(t)
        \/ RP_write_lock(t)
        \/ RP_write_recheck(t)
        \/ RP_write_reslock(t)
        \/ RP_write_unlock(t)
        \/ RP_write_resunlock(t)
        \/ RP_write_notify_readers(t)
        \/ RP_write_notify_writer(t)
        \/ RP_spurious(t)

InitRP == policy = "RP" /\ budget = [t \in Threads |-> Unlimited] /\ InitCommon
SpecRP == InitRP /\ [][NextRP]_vars

\* --------------------------------------- MON: readers_writers_monitor.cpp

\* The loop conditions of start_read and start_write: wait while they hold.
\* (mutation) start_read that does not look at waiting_writers
MON_ReadMustWait_IgnoreWaiting == writer_active
MON_ReadMustWait == writer_active \/ waiting_writers > 0
\* (mutation) start_write that waits for the writer only
MON_WriteMustWait_WriterOnly == writer_active
\* (mutation) start_write that waits for the readers only
MON_WriteMustWait_ReadersOnly == reader_count > 0
MON_WriteMustWait == reader_count > 0 \/ writer_active

\* start_read from the loop test on, monitor_mutex held; waiting_readers counts t.
MON_ReadAdmit(t, wr) ==
    IF MON_ReadMustWait
    THEN /\ waiting_readers' = wr
         /\ pc' = [pc EXCEPT ![t] = "r_wait"]
         /\ UNCHANGED reader_count
    ELSE /\ waiting_readers' = wr - 1
         /\ reader_count' = reader_count + 1
         /\ \E S \in NotifyOne(WaitingReaders \ {t}) :
                pc' = [Wake(pc, S) EXCEPT ![t] = "reading"]

MON_start_read(t) ==
    /\ policy = "MON" /\ t \in Readers
    /\ pc[t] = "idle" /\ CanIssue(t)
    /\ mtx = NoThread
    /\ budget' = Issue(t)
    /\ MON_ReadAdmit(t, waiting_readers + 1)
    /\ UNCHANGED <<policy, cohort, snapshot, mtx, resource_mutex, writer_active, waiting_writers,
                   fairVars, semVars>>

MON_read_recheck(t) ==
    /\ policy = "MON" /\ t \in Readers
    /\ pc[t] = "r_woken"
    /\ mtx = NoThread
    /\ MON_ReadAdmit(t, waiting_readers)
    /\ UNCHANGED <<policy, cohort, snapshot, budget, mtx, resource_mutex, writer_active, waiting_writers,
                   fairVars, semVars>>

\* (mutation) end_read that does not signal the waiting writer
MON_end_read_NoSignal(t) ==
    /\ policy = "MON" /\ t \in Readers
    /\ pc[t] = "reading"
    /\ mtx = NoThread
    /\ reader_count' = reader_count - 1
    /\ pc' = [pc EXCEPT ![t] = "idle"]
    /\ UNCHANGED <<policy, cohort, snapshot, budget, mtx, resource_mutex, writer_active, waiting_writers,
                   waiting_readers, fairVars, semVars>>

MON_end_read(t) ==
    /\ policy = "MON" /\ t \in Readers
    /\ pc[t] = "reading"
    /\ mtx = NoThread
    /\ reader_count' = reader_count - 1
    /\ IF reader_count - 1 = 0 /\ waiting_writers > 0
       THEN \E S \in NotifyOne(WaitingWriters) :
                pc' = [Wake(pc, S) EXCEPT ![t] = "idle"]
       ELSE pc' = [pc EXCEPT ![t] = "idle"]
    /\ UNCHANGED <<policy, cohort, snapshot, budget, mtx, resource_mutex, writer_active, waiting_writers,
                   waiting_readers, fairVars, semVars>>

\* start_write from the loop test on, monitor_mutex held; waiting_writers counts t.
MON_WriteAdmit(t, ww) ==
    IF MON_WriteMustWait
    THEN /\ waiting_writers' = ww
         /\ pc' = [pc EXCEPT ![t] = "w_wait"]
         /\ UNCHANGED writer_active
    ELSE /\ waiting_writers' = ww - 1
         /\ writer_active' = TRUE
         /\ pc' = [pc EXCEPT ![t] = "writing"]

MON_start_write(t) ==
    /\ policy = "MON" /\ t \in Writers
    /\ pc[t] = "idle" /\ CanIssue(t)
    /\ mtx = NoThread
    /\ budget' = Issue(t)
    /\ MON_WriteAdmit(t, waiting_writers + 1)
    /\ UNCHANGED <<policy, cohort, snapshot, mtx, resource_mutex, reader_count, waiting_readers,
                   fairVars, semVars>>

MON_write_recheck(t) ==
    /\ policy = "MON" /\ t \in Writers
    /\ pc[t] = "w_woken"
    /\ mtx = NoThread
    /\ MON_WriteAdmit(t, waiting_writers)
    /\ UNCHANGED <<policy, cohort, snapshot, budget, mtx, resource_mutex, reader_count, waiting_readers,
                   fairVars, semVars>>

\* (mutation) end_write that broadcasts on both condition variables
MON_end_write_Broadcast(t) ==
    /\ policy = "MON" /\ t \in Writers
    /\ pc[t] = "writing"
    /\ mtx = NoThread
    /\ writer_active' = FALSE
    /\ pc' = [Wake(pc, WaitingReaders \cup WaitingWriters) EXCEPT ![t] = "idle"]
    /\ UNCHANGED <<policy, cohort, snapshot, budget, mtx, resource_mutex, reader_count, waiting_writers,
                   waiting_readers, fairVars, semVars>>

MON_end_write(t) ==
    /\ policy = "MON" /\ t \in Writers
    /\ pc[t] = "writing"
    /\ mtx = NoThread
    /\ writer_active' = FALSE
    /\ IF waiting_writers > 0
       THEN \E S \in NotifyOne(WaitingWriters) :
                pc' = [Wake(pc, S) EXCEPT ![t] = "idle"]
       ELSE IF waiting_readers > 0
            THEN pc' = [Wake(pc, WaitingReaders) EXCEPT ![t] = "idle"]
            ELSE pc' = [pc EXCEPT ![t] = "idle"]
    /\ UNCHANGED <<policy, cohort, snapshot, budget, mtx, resource_mutex, reader_count, waiting_writers,
                   waiting_readers, fairVars, semVars>>

MON_spurious(t) == policy = "MON" /\ SpuriousWakeup(t)

NextMON ==
    \E t \in Threads :
        \/ MON_start_read(t)
        \/ MON_read_recheck(t)
        \/ MON_end_read(t)
        \/ MON_start_write(t)
        \/ MON_write_recheck(t)
        \/ MON_end_write(t)
        \/ MON_spurious(t)

InitMON == policy = "MON" /\ budget = [t \in Threads |-> Unlimited] /\ InitCommon
SpecMON == InitMON /\ [][NextMON]_vars

\* ------------------------------------------ FAIR: readers_writers_fair.cpp

\* RequestType of the request a thread creates: read_lock creates READ,
\* write_lock creates WRITE.
IsRead(u) == u \in Readers

\* Number of READ requests at the front of q: the first grant and the loop
\* over the following READ requests of process_queue.
\* (mutation) process_queue without the loop over the following READ requests
ReadRun_OnlyHead(q) == IF q = << >> \/ ~IsRead(Head(q)) THEN 0 ELSE 1
\* (mutation) the loop of process_queue without the test of the request type
ReadRun_NoTypeCheck(q) == Len(q)

RECURSIVE ReadRun(_)
ReadRun(q) == IF q = << >> \/ ~IsRead(Head(q)) THEN 0 ELSE 1 + ReadRun(Tail(q))

\* (mutation) process_queue that grants a READ only when no reader is active
GrantCount_ReadNeedsIdle(q, ar, wa) ==
    IF q = << >> THEN 0
    ELSE IF IsRead(Head(q))
         THEN IF ~wa /\ ar = 0 THEN ReadRun(q) ELSE 0
         ELSE IF ar = 0 /\ ~wa THEN 1 ELSE 0

\* (mutation) process_queue that grants a WRITE while a writer is active
GrantCount_WriteOverWriter(q, ar, wa) ==
    IF q = << >> THEN 0
    ELSE IF IsRead(Head(q))
         THEN IF ~wa THEN ReadRun(q) ELSE 0
         ELSE IF ar = 0 THEN 1 ELSE 0

\* (mutation) process_queue that grants a WRITE without testing active_readers
GrantCount_WriteOverReaders(q, ar, wa) ==
    IF q = << >> THEN 0
    ELSE IF IsRead(Head(q))
         THEN IF ~wa THEN ReadRun(q) ELSE 0
         ELSE IF ~wa THEN 1 ELSE 0

\* Requests that process_queue grants, given the queue and the two fields.
GrantCount(q, ar, wa) ==
    IF q = << >> THEN 0
    ELSE IF IsRead(Head(q))
         THEN IF ~wa THEN ReadRun(q) ELSE 0
         ELSE IF ar = 0 /\ ~wa THEN 1 ELSE 0

\* (mutation) process_queue whose loop over the following READs forgets active_readers++
ProcessQueue_CountOnce(q, ar, wa) ==
    LET n == GrantCount(q, ar, wa)
        G == {q[i] : i \in 1..n}
    IN  [queue |-> SubSeq(q, n + 1, Len(q)),
         readers |-> IF n > 0 /\ IsRead(Head(q)) THEN ar + 1 ELSE ar,
         writer |-> IF n > 0 /\ ~IsRead(Head(q)) THEN TRUE ELSE wa,
         G |-> G]

\* (mutation) process_queue that grants without request_queue.pop()
ProcessQueue_NoPop(q, ar, wa) ==
    LET n == GrantCount(q, ar, wa)
        G == {q[i] : i \in 1..n}
    IN  [queue |-> q,
         readers |-> IF n > 0 /\ IsRead(Head(q)) THEN ar + n ELSE ar,
         writer |-> IF n > 0 /\ ~IsRead(Head(q)) THEN TRUE ELSE wa,
         G |-> G]

\* process_queue(): the state after it, and the set G of requests it granted.
ProcessQueue(q, ar, wa) ==
    LET n == GrantCount(q, ar, wa)
        G == {q[i] : i \in 1..n}
    IN  [queue |-> SubSeq(q, n + 1, Len(q)),
         readers |-> IF n > 0 /\ IsRead(Head(q)) THEN ar + n ELSE ar,
         writer |-> IF n > 0 /\ ~IsRead(Head(q)) THEN TRUE ELSE wa,
         G |-> G]

HolderCount == active_readers + (IF writer_active THEN 1 ELSE 0)

\* read_lock / write_lock up to the first test of request->granted.
FAIR_Arrive(t, admitted) ==
    LET r == ProcessQueue(Append(request_queue, t), active_readers, writer_active)
    IN  /\ request_queue' = r.queue
        /\ active_readers' = r.readers
        /\ writer_active' = r.writer
        /\ granted' = [u \in Threads |-> IF u \in r.G THEN TRUE
                                         ELSE IF u = t THEN FALSE ELSE granted[u]]
        /\ pc' = [Wake(pc, r.G) EXCEPT ![t] = IF t \in r.G THEN admitted
                                              ELSE IF IsRead(t) THEN "r_wait" ELSE "w_wait"]
        /\ ahead' = [u \in Threads |-> IF u = t THEN Range(request_queue)
                                       ELSE ahead[u] \ batch]
        /\ batch' = r.G
        /\ owed' = [owed EXCEPT ![t] = Len(request_queue) + HolderCount]

\* (mutation) read_unlock / write_unlock that does not call process_queue
FAIR_Release_NoProcess(t, ar, wa) ==
    /\ active_readers' = ar
    /\ writer_active' = wa
    /\ granted' = [granted EXCEPT ![t] = FALSE]
    /\ pc' = [pc EXCEPT ![t] = "idle"]
    /\ owed' = [u \in Threads |-> IF u \in Range(request_queue)
                                  THEN owed[u] - 1 ELSE IF u = t THEN 0 ELSE owed[u]]
    /\ UNCHANGED <<request_queue, ahead, batch>>

\* The process_queue call that ends read_unlock / write_unlock, after a release
\* that left active_readers = ar and writer_active = wa.
FAIR_Release(t, ar, wa) ==
    LET r == ProcessQueue(request_queue, ar, wa)
    IN  /\ request_queue' = r.queue
        /\ active_readers' = r.readers
        /\ writer_active' = r.writer
        /\ granted' = [u \in Threads |-> IF u \in r.G THEN TRUE
                                         ELSE IF u = t THEN FALSE ELSE granted[u]]
        /\ pc' = [Wake(pc, r.G) EXCEPT ![t] = "idle"]
        /\ ahead' = [u \in Threads |-> ahead[u] \ batch]
        /\ batch' = r.G
        /\ owed' = [u \in Threads |-> IF u \in Range(request_queue)
                                      THEN owed[u] - 1 ELSE IF u = t THEN 0 ELSE owed[u]]

FAIR_read_lock(t) ==
    /\ policy = "FAIR" /\ t \in Readers
    /\ pc[t] = "idle" /\ CanIssue(t)
    /\ mtx = NoThread
    /\ budget' = Issue(t)
    /\ FAIR_Arrive(t, "reading")
    /\ UNCHANGED <<policy, cohort, snapshot, mtx, resource_mutex, reader_count, waiting_writers,
                   cvVars, semVars>>

\* while (!request->granted) request->cv->wait(lock);
FAIR_read_recheck(t) ==
    /\ policy = "FAIR" /\ t \in Readers
    /\ pc[t] = "r_woken"
    /\ mtx = NoThread
    /\ pc' = [pc EXCEPT ![t] = IF granted[t] THEN "reading" ELSE "r_wait"]
    /\ UNCHANGED <<policy, cohort, snapshot, budget, mtx, resource_mutex, reader_count, writer_active,
                   waiting_writers, cvVars, fairVars, semVars>>

\* The last reader calls resource_mutex.unlock(); no reader ever locks it.
FAIR_read_unlock(t) ==
    /\ policy = "FAIR" /\ t \in Readers
    /\ pc[t] = "reading"
    /\ mtx = NoThread
    /\ IF active_readers - 1 = 0
       THEN resource_mutex' \in MutexUnlock(resource_mutex, t)
       ELSE UNCHANGED resource_mutex
    /\ FAIR_Release(t, active_readers - 1, writer_active)
    /\ UNCHANGED <<policy, cohort, snapshot, budget, mtx, reader_count, waiting_writers,
                   cvVars, semVars>>

FAIR_write_lock(t) ==
    /\ policy = "FAIR" /\ t \in Writers
    /\ pc[t] = "idle" /\ CanIssue(t)
    /\ mtx = NoThread
    /\ budget' = Issue(t)
    /\ FAIR_Arrive(t, "w_reslock")
    /\ UNCHANGED <<policy, cohort, snapshot, mtx, resource_mutex, reader_count, waiting_writers,
                   cvVars, semVars>>

FAIR_write_recheck(t) ==
    /\ policy = "FAIR" /\ t \in Writers
    /\ pc[t] = "w_woken"
    /\ mtx = NoThread
    /\ pc' = [pc EXCEPT ![t] = IF granted[t] THEN "w_reslock" ELSE "w_wait"]
    /\ UNCHANGED <<policy, cohort, snapshot, budget, mtx, resource_mutex, reader_count, writer_active,
                   waiting_writers, cvVars, fairVars, semVars>>

FAIR_write_reslock(t) ==
    /\ policy = "FAIR"
    /\ pc[t] = "w_reslock"
    /\ resource_mutex = NoThread
    /\ resource_mutex' = t
    /\ pc' = [pc EXCEPT ![t] = "writing"]
    /\ UNCHANGED <<policy, cohort, snapshot, budget, mtx, reader_count, writer_active, waiting_writers,
                   cvVars, fairVars, semVars>>

FAIR_write_unlock(t) ==
    /\ policy = "FAIR" /\ t \in Writers
    /\ pc[t] = "writing"
    /\ mtx = NoThread
    /\ resource_mutex' \in MutexUnlock(resource_mutex, t)
    /\ FAIR_Release(t, active_readers, FALSE)
    /\ UNCHANGED <<policy, cohort, snapshot, budget, mtx, reader_count, waiting_writers,
                   cvVars, semVars>>

FAIR_spurious(t) == policy = "FAIR" /\ SpuriousWakeup(t)

NextFAIR ==
    \E t \in Threads :
        \/ FAIR_read_lock(t)
        \/ FAIR_read_recheck(t)
        \/ FAIR_read_unlock(t)
        \/ FAIR_write_lock(t)
        \/ FAIR_write_recheck(t)
        \/ FAIR_write_reslock(t)
        \/ FAIR_write_unlock(t)
        \/ FAIR_spurious(t)

InitFAIR == policy = "FAIR" /\ budget = [t \in Threads |-> Unlimited] /\ InitCommon
SpecFAIR == InitFAIR /\ [][NextFAIR]_vars

\* ------------------------------------- SEM: readers_writers_semaphore.cpp
\* sem_wait(s) blocks while s = 0 and then decrements; sem_post(s) increments.

\* reader_lock: sem_wait(&read_mutex), on the first call and on each retry.
SEM_reader_lock(t) ==
    /\ policy = "SEM" /\ t \in Readers
    /\ \/ pc[t] = "idle" /\ CanIssue(t) /\ budget' = Issue(t)
       \/ pc[t] = "r_retry" /\ UNCHANGED budget
    /\ read_mutex > 0
    /\ read_mutex' = read_mutex - 1
    /\ pc' = [pc EXCEPT ![t] = "r_mutex"]
    /\ UNCHANGED <<policy, cohort, snapshot, mtx, resource_mutex, reader_count, writer_active,
                   waiting_writers, cvVars, fairVars, mutex, write_mutex,
                   writer_waiting, should_wait>>

\* (mutation) reader_lock that counts the reader before it tests writer_waiting
SEM_reader_check_CountFirst(t) ==
    /\ policy = "SEM"
    /\ pc[t] = "r_mutex"
    /\ mutex > 0
    /\ mutex' = mutex - 1
    /\ should_wait' = [should_wait EXCEPT ![t] = writer_waiting]
    /\ reader_count' = reader_count + 1
    /\ pc' = [pc EXCEPT ![t] = IF ~writer_waiting /\ reader_count + 1 = 1 THEN "r_wmutex"
                                                                          ELSE "r_post"]
    /\ UNCHANGED <<policy, cohort, snapshot, budget, mtx, resource_mutex, writer_active,
                   waiting_writers, cvVars, fairVars, write_mutex, read_mutex,
                   writer_waiting>>

\* sem_wait(&mutex); should_wait = writer_waiting; if (!should_wait) reader_count++
SEM_reader_check(t) ==
    /\ policy = "SEM"
    /\ pc[t] = "r_mutex"
    /\ mutex > 0
    /\ mutex' = mutex - 1
    /\ should_wait' = [should_wait EXCEPT ![t] = writer_waiting]
    /\ IF ~writer_waiting
       THEN /\ reader_count' = reader_count + 1
            /\ pc' = [pc EXCEPT ![t] = IF reader_count + 1 = 1 THEN "r_wmutex"
                                                               ELSE "r_post"]
       ELSE /\ pc' = [pc EXCEPT ![t] = "r_post"]
            /\ UNCHANGED reader_count
    /\ UNCHANGED <<policy, cohort, snapshot, budget, mtx, resource_mutex, writer_active,
                   waiting_writers, cvVars, fairVars, write_mutex, read_mutex,
                   writer_waiting>>

\* The first reader's sem_wait(&write_mutex), holding mutex and read_mutex.
SEM_reader_wmutex(t) ==
    /\ policy = "SEM"
    /\ pc[t] = "r_wmutex"
    /\ write_mutex > 0
    /\ write_mutex' = write_mutex - 1
    /\ pc' = [pc EXCEPT ![t] = "r_post"]
    /\ UNCHANGED <<policy, cohort, snapshot, budget, mtx, resource_mutex, reader_count, writer_active,
                   waiting_writers, cvVars, fairVars, mutex, read_mutex,
                   writer_waiting, should_wait>>

\* sem_post(&mutex)
SEM_reader_post_mutex(t) ==
    /\ policy = "SEM"
    /\ pc[t] = "r_post"
    /\ mutex' = mutex + 1
    /\ pc' = [pc EXCEPT ![t] = "r_post_read"]
    /\ UNCHANGED <<policy, cohort, snapshot, budget, mtx, resource_mutex, reader_count, writer_active,
                   waiting_writers, cvVars, fairVars, write_mutex, read_mutex,
                   writer_waiting, should_wait>>

\* sem_post(&read_mutex); then return, or back off when should_wait.
SEM_reader_post_read(t) ==
    /\ policy = "SEM"
    /\ pc[t] = "r_post_read"
    /\ read_mutex' = read_mutex + 1
    /\ pc' = [pc EXCEPT ![t] = IF should_wait[t] THEN "r_backoff" ELSE "reading"]
    /\ UNCHANGED <<policy, cohort, snapshot, budget, mtx, resource_mutex, reader_count, writer_active,
                   waiting_writers, cvVars, fairVars, mutex, write_mutex,
                   writer_waiting, should_wait>>

\* yield(); sleep_for(10ms); reader_lock();
SEM_reader_backoff(t) ==
    /\ policy = "SEM"
    /\ pc[t] = "r_backoff"
    /\ pc' = [pc EXCEPT ![t] = "r_retry"]
    /\ UNCHANGED <<policy, cohort, snapshot, budget, mtx, resource_mutex, reader_count, writer_active,
                   waiting_writers, cvVars, fairVars, semVars>>

\* reader_unlock: sem_wait(&mutex); reader_count--; the last reader posts write_mutex.
SEM_reader_unlock(t) ==
    /\ policy = "SEM" /\ t \in Readers
    /\ pc[t] = "reading"
    /\ mutex > 0
    /\ mutex' = mutex - 1
    /\ reader_count' = reader_count - 1
    /\ write_mutex' = IF reader_count - 1 = 0 THEN write_mutex + 1 ELSE write_mutex
    /\ pc' = [pc EXCEPT ![t] = "ru_post"]
    /\ UNCHANGED <<policy, cohort, snapshot, budget, mtx, resource_mutex, writer_active,
                   waiting_writers, cvVars, fairVars, read_mutex,
                   writer_waiting, should_wait>>

\* reader_unlock: sem_post(&mutex)
SEM_reader_unlock_post(t) ==
    /\ policy = "SEM"
    /\ pc[t] = "ru_post"
    /\ mutex' = mutex + 1
    /\ pc' = [pc EXCEPT ![t] = "idle"]
    /\ UNCHANGED <<policy, cohort, snapshot, budget, mtx, resource_mutex, reader_count, writer_active,
                   waiting_writers, cvVars, fairVars, write_mutex, read_mutex,
                   writer_waiting, should_wait>>

\* writer_lock: sem_wait(&mutex); writer_waiting = true
SEM_writer_lock(t) ==
    /\ policy = "SEM" /\ t \in Writers
    /\ pc[t] = "idle" /\ CanIssue(t)
    /\ budget' = Issue(t)
    /\ mutex > 0
    /\ mutex' = mutex - 1
    /\ writer_waiting' = TRUE
    /\ pc' = [pc EXCEPT ![t] = "w_post"]
    /\ UNCHANGED <<policy, cohort, snapshot, mtx, resource_mutex, reader_count, writer_active,
                   waiting_writers, cvVars, fairVars, write_mutex, read_mutex,
                   should_wait>>

\* writer_lock: sem_post(&mutex) after setting the flag
SEM_writer_post(t) ==
    /\ policy = "SEM"
    /\ pc[t] = "w_post"
    /\ mutex' = mutex + 1
    /\ pc' = [pc EXCEPT ![t] = "w_wmutex"]
    /\ UNCHANGED <<policy, cohort, snapshot, budget, mtx, resource_mutex, reader_count, writer_active,
                   waiting_writers, cvVars, fairVars, write_mutex, read_mutex,
                   writer_waiting, should_wait>>

\* (mutation) writer_lock that does not block on write_mutex (sem_trywait)
SEM_writer_wmutex_NoBlock(t) ==
    /\ policy = "SEM"
    /\ pc[t] = "w_wmutex"
    /\ write_mutex' = IF write_mutex > 0 THEN write_mutex - 1 ELSE write_mutex
    /\ pc' = [pc EXCEPT ![t] = "w_mutex2"]
    /\ UNCHANGED <<policy, cohort, snapshot, budget, mtx, resource_mutex, reader_count, writer_active,
                   waiting_writers, cvVars, fairVars, mutex, read_mutex,
                   writer_waiting, should_wait>>

\* writer_lock: sem_wait(&write_mutex)
SEM_writer_wmutex(t) ==
    /\ policy = "SEM"
    /\ pc[t] = "w_wmutex"
    /\ write_mutex > 0
    /\ write_mutex' = write_mutex - 1
    /\ pc' = [pc EXCEPT ![t] = "w_mutex2"]
    /\ UNCHANGED <<policy, cohort, snapshot, budget, mtx, resource_mutex, reader_count, writer_active,
                   waiting_writers, cvVars, fairVars, mutex, read_mutex,
                   writer_waiting, should_wait>>

\* writer_lock: sem_wait(&mutex); writer_waiting = false
SEM_writer_reset(t) ==
    /\ policy = "SEM"
    /\ pc[t] = "w_mutex2"
    /\ mutex > 0
    /\ mutex' = mutex - 1
    /\ writer_waiting' = FALSE
    /\ pc' = [pc EXCEPT ![t] = "w_post2"]
    /\ UNCHANGED <<policy, cohort, snapshot, budget, mtx, resource_mutex, reader_count, writer_active,
                   waiting_writers, cvVars, fairVars, write_mutex, read_mutex,
                   should_wait>>

\* writer_lock: the last sem_post(&mutex), then return
SEM_writer_post2(t) ==
    /\ policy = "SEM"
    /\ pc[t] = "w_post2"
    /\ mutex' = mutex + 1
    /\ pc' = [pc EXCEPT ![t] = "writing"]
    /\ UNCHANGED <<policy, cohort, snapshot, budget, mtx, resource_mutex, reader_count, writer_active,
                   waiting_writers, cvVars, fairVars, write_mutex, read_mutex,
                   writer_waiting, should_wait>>

\* writer_unlock: sem_post(&write_mutex)
SEM_writer_unlock(t) ==
    /\ policy = "SEM" /\ t \in Writers
    /\ pc[t] = "writing"
    /\ write_mutex' = write_mutex + 1
    /\ pc' = [pc EXCEPT ![t] = "idle"]
    /\ UNCHANGED <<policy, cohort, snapshot, budget, mtx, resource_mutex, reader_count, writer_active,
                   waiting_writers, cvVars, fairVars, mutex, read_mutex,
                   writer_waiting, should_wait>>

NextSEM ==
    \E t \in Threads :
        \/ SEM_reader_lock(t)
        \/ SEM_reader_check(t)
        \/ SEM_reader_wmutex(t)
        \/ SEM_reader_post_mutex(t)
        \/ SEM_reader_post_read(t)
        \/ SEM_reader_backoff(t)
        \/ SEM_reader_unlock(t)
        \/ SEM_reader_unlock_post(t)
        \/ SEM_writer_lock(t)
        \/ SEM_writer_post(t)
        \/ SEM_writer_wmutex(t)
        \/ SEM_writer_reset(t)
        \/ SEM_writer_post2(t)
        \/ SEM_writer_unlock(t)

InitSEM == policy = "SEM" /\ budget = [t \in Threads |-> Unlimited] /\ InitCommon
SpecSEM == InitSEM /\ [][NextSEM]_vars

\* ------------------------------------------------ all hand-rolled policies

Init == policy \in {"WP", "EDU", "RP", "FAIR", "MON", "SEM"} /\ budget = [t \in Threads |-> Unlimited] /\ InitCommon
Next == NextWP \/ NextEDU \/ NextRP \/ NextFAIR \/ NextMON \/ NextSEM
Spec == Init /\ [][Next]_vars

\* Writer preference, both source files.
InitWPE == policy \in {"WP", "EDU"} /\ budget = [t \in Threads |-> Unlimited] /\ InitCommon
NextWPE == NextWP \/ NextEDU
SpecWPE == InitWPE /\ [][NextWPE]_vars

\* ================================================================ claims

\* Threads between the return of their acquire and the call of their release.
InReadCS == {r \in Readers : pc[r] = "reading"}
InWriteCS == {w \in Writers : pc[w] = "writing"}

\* C1: writer preference (readers_writers.cpp, readers_writers_educational.cpp):
\* writer_active never holds together with reader_count > 0, and no reader
\* that returned from read_lock coexists with a writer that returned from
\* write_lock.
C1_WriterPrefExclusive ==
    policy \in {"WP", "EDU"} =>
        /\ ~(writer_active /\ reader_count > 0)
        /\ ~(InReadCS # {} /\ InWriteCS # {})

\* C1 witness: a writer is inside its critical section while a reader and the
\* other writer are kept waiting in read_lock / write_lock.
C1_Witness ==
    /\ policy = "WP"
    /\ InWriteCS # {}
    /\ \E r \in Readers : pc[r] = "r_wait"
    /\ \E w \in Writers : pc[w] = "w_wait"

\* C2: reader preference: writer_active never holds together with
\* reader_count > 0, and no reader inside its critical section coexists with
\* a writer inside its critical section.
C2_ReaderPrefExclusive ==
    policy = "RP" =>
        /\ ~(writer_active /\ reader_count > 0)
        /\ ~(InReadCS # {} /\ InWriteCS # {})

\* C2 witness: two readers share the critical section while a writer waits.
C2_Witness ==
    /\ policy = "RP"
    /\ Cardinality(InReadCS) >= 2
    /\ \E w \in Writers : pc[w] = "w_wait"

\* A request that was granted and whose owner has not yet released.
GrantedUnreleased(u) == granted[u]

\* C3: FIFO fair: writer_active never holds together with active_readers > 0,
\* and no granted, unreleased READ coexists with a granted, unreleased WRITE.
C3_FairExclusive ==
    policy = "FAIR" =>
        /\ ~(writer_active /\ active_readers > 0)
        /\ ~\E r \in Readers, w \in Writers :
               GrantedUnreleased(r) /\ GrantedUnreleased(w)

\* C3 witness: a reader holds the lock while a WRITE heads the queue with a
\* READ queued behind it.
C3_Witness ==
    /\ policy = "FAIR"
    /\ InReadCS # {}
    /\ Len(request_queue) >= 2
    /\ ~IsRead(request_queue[1])
    /\ IsRead(request_queue[2])

\* C4: monitor: writer_active never holds together with reader_count > 0.
C4_MonitorExclusive ==
    policy = "MON" => ~(writer_active /\ reader_count > 0)

\* C4 witness: a writer is active while a reader and a writer wait.
C4_Witness ==
    /\ policy = "MON"
    /\ writer_active
    /\ waiting_readers > 0
    /\ waiting_writers > 0

\* C5: semaphores: no reader that returned from reader_lock coexists with a
\* writer that returned from writer_lock.
C5_SemaphoreExclusive ==
    policy = "SEM" => ~(InReadCS # {} /\ InWriteCS # {})

\* C5 witness: a writer is in its critical section while the first reader is
\* blocked on write_mutex.
C5_Witness ==
    /\ policy = "SEM"
    /\ InWriteCS # {}
    /\ \E r \in Readers : pc[r] = "r_wmutex"

\* C6: in every policy at most one writer is between the return of its write
\* acquire and the call of its write release.
C6_SingleWriter == Cardinality(InWriteCS) <= 1

\* C6 witness: one writer is in its critical section and another writer has
\* called its write acquire and not returned.
C6_Witness ==
    /\ InWriteCS # {}
    /\ \E w \in Writers : pc[w] \in {"w_wait", "w_woken", "w_reslock", "w_wmutex"}

\* ------------------------------------------------------------ progress

\* A thread that has called its acquire operation and has not returned.
InAcquire(t) == pc[t] \in {"r_wait", "r_woken", "r_reslock",
                           "w_wait", "w_woken", "w_reslock"}
Admitted(t) == pc[t] \in {"reading", "writing"}

\* Every step thread t can take in readers_writers.cpp, a spurious wakeup
\* excepted: the scheduler runs every thread that can run.
WP_Step(t) ==
    \/ WP_read_lock(t)
    \/ WP_read_recheck(t)
    \/ WP_read_reslock(t)
    \/ WP_read_unlock(t)
    \/ WP_write_lock(t)
    \/ WP_write_recheck(t)
    \/ WP_write_reslock(t)
    \/ WP_write_unlock(t)
    \/ WP_write_resunlock(t)
    \/ WP_write_notify(t)

\* Finitely many requests per thread, fair scheduling.
InitWPFin == policy = "WP" /\ budget = [t \in Threads |-> MaxReq] /\ InitCommon
SpecWPFair == InitWPFin /\ [][NextWP]_vars /\ \A t \in Threads : SF_vars(WP_Step(t))

\* C7: writer preference, finitely many requests per thread, every admitted
\* thread releases, fair scheduling: every thread that calls read_lock or
\* write_lock eventually returns from it.
C7_WriterPrefProgress ==
    \A t \in Threads : InAcquire(t) ~> Admitted(t)

\* Every step thread t can take in readers_writers_fair.cpp once its request
\* is queued or granted.  Calling read_lock / write_lock is left to the thread,
\* and a spurious wakeup is not something the scheduler owes.
FAIR_Step(t) ==
    \/ FAIR_read_recheck(t)
    \/ FAIR_read_unlock(t)
    \/ FAIR_write_recheck(t)
    \/ FAIR_write_reslock(t)
    \/ FAIR_write_unlock(t)

SpecFAIRFair == InitFAIR /\ [][NextFAIR]_vars /\ \A t \in Threads : WF_vars(FAIR_Step(t))

Pending(t) == t \in Range(request_queue)

\* C8: FIFO fair, every admitted thread releases, fair scheduling: every queued
\* request is eventually granted, and it is granted after at most as many
\* releases as there were requests ahead of it plus holders when it arrived
\* (owed counts that number down, one per release; it never runs out while
\* the request is still queued).
C8_FairProgress ==
    /\ [](policy = "FAIR" => \A u \in Threads :
              /\ Pending(u) => owed[u] > 0
              /\ granted[u] => owed[u] >= 0)
    /\ \A t \in Threads : Pending(t) ~> granted[t]

\* C8 witness: a WRITE that had to wait has been granted by a release while
\* another request is still queued behind it.
C8_Witness ==
    /\ policy = "FAIR"
    /\ \E w \in Writers : granted[w] /\ pc[w] = "w_woken"
    /\ request_queue # << >>

\* ---------------------------------------------- reader preference: starvation

WriterWaiting(w) == pc[w] \in {"w_wait", "w_woken"}

RP_Step(t) ==
    \/ RP_read_lock(t)
    \/ RP_read_recheck(t)
    \/ RP_read_reslock(t)
    \/ RP_read_unlock(t)
    \/ RP_write_lock(t)
    \/ RP_write_recheck(t)
    \/ RP_write_reslock(t)
    \/ RP_write_unlock(t)
    \/ RP_write_resunlock(t)
    \/ RP_write_notify_readers(t)
    \/ RP_write_notify_writer(t)

\* A schedule of the arrivals: while a writer waits, the last reader inside is
\* not the next to run; another reader enters first.
ReadersOverlap ==
    (reader_count >= 1 /\ \E w \in Writers : WriterWaiting(w)) => reader_count' >= 1

\* The runs of the reader-preference lock under that schedule, every thread
\* running again and again whenever the schedule lets it.
NextRPStarve == NextRP /\ ReadersOverlap
SpecRPStarve ==
    /\ InitRP
    /\ [][NextRPStarve]_vars
    /\ \A t \in Threads : SF_vars(RP_Step(t) /\ ReadersOverlap)

\* A writer blocked in write_lock while a reader is inside.
Starving(w) == WriterWaiting(w) /\ InReadCS # {}

\* C9: reader preference: there are fair runs in which readers keep arriving,
\* reader_count never returns to 0 and a writer blocked in write_lock is never
\* admitted.  In every run of SpecRPStarve, a writer that waits while a reader
\* is inside waits for ever, while every reader keeps entering and leaving.
C9_WriterStarves ==
    /\ [][\A w \in Writers : Starving(w) => Starving(w)']_vars
    /\ \A w \in Writers : \A r \in Readers :
           /\ Starving(w) ~> (pc[r] = "idle")
           /\ Starving(w) ~> (pc[r] = "reading")

\* C9 witness: a writer waits while both a reader that entered before it and a
\* second reader are inside.
C9_Witness ==
    /\ policy = "RP"
    /\ \E w \in Writers : Starving(w)
    /\ Cardinality(InReadCS) >= 2

\* ------------------------------------------------------------ FIFO order

\* C10: FIFO fair: a request is granted no later than any request queued after
\* it, and strictly earlier when one of the two is a WRITE.  ahead[B] holds the
\* requests queued before B and not granted by an earlier process_queue;
\* batch holds the requests granted by the latest one.
C10_FifoOrder ==
    policy = "FAIR" =>
        \A B \in Threads :
            granted[B] =>
                IF B \in batch
                THEN \A A \in ahead[B] : A \in batch /\ IsRead(A) /\ IsRead(B)
                ELSE ahead[B] = {}

\* C10 witness: a READ was granted together with a READ queued before it while
\* a WRITE that arrived later stays queued.
C10_Witness ==
    /\ policy = "FAIR"
    /\ \E B \in batch : granted[B] /\ ahead[B] # {}
    /\ \E w \in Writers : Pending(w)

\* ------------------------------------------ writer preference: admission

\* C11: writer preference (both source files): a reader is admitted, i.e.
\* reader_count is incremented, only from a state where writer_active is
\* false and waiting_writers is 0, and no writer that has entered write_lock
\* is still waiting for its admission in that state; so a reader that calls
\* read_lock while a writer waits is never admitted before that writer.
C11_ReadersBehindWriters ==
    [][(policy \in {"WP", "EDU"} /\ reader_count' = reader_count + 1) =>
           /\ ~writer_active
           /\ waiting_writers = 0
           /\ ~\E w \in Writers : WriterWaiting(w)]_vars

\* C11 witness: no writer is active, a writer waits behind a reader that is
\* inside, and a second reader that called read_lock is held back.
C11_Witness ==
    /\ policy = "WP"
    /\ ~writer_active
    /\ InReadCS # {}
    /\ \E w \in Writers : pc[w] = "w_wait"
    /\ \E r \in Readers : pc[r] = "r_wait"

\* ------------------------------------------------- unmatched releases
\* The release operations take no ticket and test nothing: a thread that holds
\* no admission can call them.  Each such call costs the thread one request.

\* read_unlock() of readers_writers.cpp called by a thread that holds no admission.
WP_read_unlock_unmatched(t) ==
    /\ policy = "WP"
    /\ pc[t] = "idle" /\ budget[t] > 0
    /\ mtx = NoThread
    /\ budget' = Issue(t)
    /\ reader_count' = reader_count - 1
    /\ IF reader_count - 1 = 0
       THEN /\ resource_mutex' \in MutexUnlock(resource_mutex, t)
            /\ pc' = Wake(pc, WaitingReaders \cup WaitingWriters)
       ELSE UNCHANGED <<pc, resource_mutex>>
    /\ UNCHANGED <<policy, cohort, snapshot, mtx, writer_active, waiting_writers,
                   cvVars, fairVars, semVars>>

\* write_unlock() of readers_writers.cpp called by a thread that holds no
\* admission; WP_write_resunlock and WP_write_notify run the rest of the call.
WP_write_unlock_unmatched(t) ==
    /\ policy = "WP"
    /\ pc[t] = "idle" /\ budget[t] > 0
    /\ mtx = NoThread
    /\ budget' = Issue(t)
    /\ writer_active' = FALSE
    /\ pc' = [pc EXCEPT ![t] = "w_resunlock"]
    /\ UNCHANGED <<policy, cohort, snapshot, mtx, resource_mutex, reader_count, waiting_writers,
                   cvVars, fairVars, semVars>>

\* end_read() called by a thread that holds no admission.
MON_end_read_unmatched(t) ==
    /\ policy = "MON"
    /\ pc[t] = "idle" /\ budget[t] > 0
    /\ mtx = NoThread
    /\ budget' = Issue(t)
    /\ reader_count' = reader_count - 1
    /\ IF reader_count - 1 = 0 /\ waiting_writers > 0
       THEN \E S \in NotifyOne(WaitingWriters) : pc' = Wake(pc, S)
       ELSE UNCHANGED pc
    /\ UNCHANGED <<policy, cohort, snapshot, mtx, resource_mutex, writer_active, waiting_writers,
                   waiting_readers, fairVars, semVars>>

\* end_write() called by a thread that holds no admission.
MON_end_write_unmatched(t) ==
    /\ policy = "MON"
    /\ pc[t] = "idle" /\ budget[t] > 0
    /\ mtx = NoThread
    /\ budget' = Issue(t)
    /\ writer_active' = FALSE
    /\ IF waiting_writers > 0
       THEN \E S \in NotifyOne(WaitingWriters) : pc' = Wake(pc, S)
       ELSE IF waiting_readers > 0
            THEN pc' = Wake(pc, WaitingReaders)
            ELSE UNCHANGED pc
    /\ UNCHANGED <<policy, cohort, snapshot, mtx, resource_mutex, reader_count, waiting_writers,
                   waiting_readers, fairVars, semVars>>

\* read_unlock() of readers_writers_fair.cpp called by a thread that holds no
\* admission.
FAIR_read_unlock_unmatched(t) ==
    /\ policy = "FAIR"
    /\ pc[t] = "idle" /\ budget[t] > 0
    /\ mtx = NoThread
    /\ budget' = Issue(t)
    /\ IF active_readers - 1 = 0
       THEN resource_mutex' \in MutexUnlock(resource_mutex, t)
       ELSE UNCHANGED resource_mutex
    /\ FAIR_Release(t, active_readers - 1, writer_active)
    /\ UNCHANGED <<policy, cohort, snapshot, mtx, reader_count, waiting_writers, cvVars, semVars>>

\* write_unlock() of readers_writers_fair.cpp called by a thread that holds no
\* admission.
FAIR_write_unlock_unmatched(t) ==
    /\ policy = "FAIR"
    /\ pc[t] = "idle" /\ budget[t] > 0
    /\ mtx = NoThread
    /\ budget' = Issue(t)
    /\ resource_mutex' \in MutexUnlock(resource_mutex, t)
    /\ FAIR_Release(t, active_readers, FALSE)
    /\ UNCHANGED <<policy, cohort, snapshot, mtx, reader_count, waiting_writers, cvVars, semVars>>

UnmatchedRelease(t) ==
    \/ WP_read_unlock_unmatched(t)
    \/ WP_write_unlock_unmatched(t)
    \/ MON_end_read_unmatched(t)
    \/ MON_end_write_unmatched(t)
    \/ FAIR_read_unlock_unmatched(t)
    \/ FAIR_write_unlock_unmatched(t)

InitMisuse == policy \in {"WP", "MON", "FAIR"} /\ budget = [t \in Threads |-> MaxReq]
              /\ InitCommon
NextMisuse ==
    \/ NextWP
    \/ NextMON
    \/ NextFAIR
    \/ \E t \in Threads : WP_read_unlock_unmatched(t)
    \/ \E t \in Threads : WP_write_unlock_unmatched(t)
    \/ \E t \in Threads : MON_end_read_unmatched(t)
    \/ \E t \in Threads : MON_end_write_unmatched(t)
    \/ \E t \in Threads : FAIR_read_unlock_unmatched(t)
    \/ \E t \in Threads : FAIR_write_unlock_unmatched(t)
SpecMisuse == InitMisuse /\ [][NextMisuse]_vars

\* The fields of the lock.
LockState == <<reader_count, active_readers, writer_active, waiting_writers,
               waiting_readers, request_queue, granted, resource_mutex>>

\* C12: a release call without a matching outstanding admission leaves the
\* lock state unchanged (it is only reported): the reader count never becomes
\* negative and writer_active is never cleared under a writer that is inside.
C12_GuardSafety ==
    /\ [][(\E t \in Threads : UnmatchedRelease(t)) => UNCHANGED LockState]_vars
    /\ [](reader_count >= 0 /\ active_readers >= 0)
    /\ [](InWriteCS # {} => writer_active)

\* -------------------------------------------- blocking under the bookkeeping lock

\* Thread t is suspended inside an acquire operation: in a condition variable
\* wait, in resource_mutex.lock() while another thread holds resource_mutex,
\* or in sem_wait(&write_mutex) while write_mutex is 0.
BlockedInAcquire(t) ==
    \/ pc[t] \in {"r_wait", "w_wait"}
    \/ pc[t] \in {"r_reslock", "w_reslock"} /\ resource_mutex # NoThread
    \/ pc[t] \in {"r_wmutex", "w_wmutex"} /\ write_mutex = 0

\* Thread t is between sem_wait(&mutex) and the matching sem_post(&mutex).
SEM_HoldsMutex(t) ==
    policy = "SEM" /\ pc[t] \in {"r_wmutex", "r_post", "ru_post", "w_post", "w_post2"}

\* Thread t holds the bookkeeping lock of its policy.
HoldsBookkeeping(t) == mtx = t \/ SEM_HoldsMutex(t)

\* C13: in no policy is a thread suspended inside an acquire operation while
\* it holds the bookkeeping lock (mtx, or the semaphore 'mutex').
C13_NoBlockUnderBookkeeping ==
    \A t \in Threads : BlockedInAcquire(t) => ~HoldsBookkeeping(t)

\* -------------------------------------------- WP: readers blocked behind a writer

\* C14 as stated: no reader is admitted while a writer holds the lock, and of
\* the readers that were blocked when the writer released (no writer waiting
\* or arriving since), none releases while another has not yet been admitted.
C14_AdmittedTogether ==
    /\ [][(policy = "WP" /\ reader_count' > reader_count) =>
              ~writer_active /\ InWriteCS = {}]_vars
    /\ [][\A r \in cohort : (pc[r] = "reading" /\ pc'[r] = "idle")
              => cohort \cap BlockedReaders = {}]_vars

\* C14 amended: no reader is admitted while a writer holds the lock; after
\* the release, while no writer is waiting or arrives, each reader that was
\* blocked is admitted the first time it re-checks the predicate, one reader
\* per step, whether or not the others are still inside.
C14_AdmittedOneByOne ==
    /\ [][(policy = "WP" /\ reader_count' > reader_count) =>
              ~writer_active /\ InWriteCS = {}]_vars
    /\ [][\A r \in cohort : (pc[r] = "r_woken" /\ pc'[r] # "r_woken") =>
              /\ reader_count' = reader_count + 1
              /\ pc'[r] \in {"r_reslock", "reading"}]_vars
    /\ [](cohort # {} => ~writer_active /\ waiting_writers = 0)

\* All readers were blocked behind the writer and are now inside together.
C14_Witness ==
    /\ policy = "WP"
    /\ cohort = Readers
    /\ reader_count = NumReaders
    /\ \A r \in Readers : pc[r] = "reading"

\* -------------------------------------------- FAIR: one admission pass

\* Thread t calls read_lock / write_lock in this step.
Arrives(t) == pc[t] = "idle" /\ pc'[t] # "idle"

\* Thread t completes read_unlock / write_unlock in this step.
Releases(t) == pc[t] \in {"reading", "writing"} /\ pc'[t] = "idle"

\* This step runs process_queue.
PassStep == policy = "FAIR" /\ \E t \in Threads : Arrives(t) \/ Releases(t)

\* The queue, active_readers and writer_active that process_queue finds.
QueueIn ==
    IF \E t \in Threads : Arrives(t)
    THEN Append(request_queue, CHOOSE t \in Threads : Arrives(t))
    ELSE request_queue
ReadersIn == active_readers - Cardinality({r \in Readers : Releases(r)})
WriterIn == writer_active /\ ~\E w \in Writers : Releases(w)

\* The requests this step marks granted.
NewlyGranted == {u \in Threads : granted'[u] /\ ~granted[u]}

\* Position of request u in queue q (0 when it is not there).
PosIn(q, u) == IF \E i \in 1..Len(q) : q[i] = u
               THEN CHOOSE i \in 1..Len(q) : q[i] = u ELSE 0

MON_get_state_WrongField ==
    /\ policy = "MON"
    /\ mtx = NoThread
    /\ snapshot' = <<reader_count, IF writer_active THEN 1 ELSE 0,
                     waiting_readers, waiting_readers>>
    /\ UNCHANGED <<policy, cohort, pc, budget, mtx, resource_mutex, reader_count,
                   writer_active, waiting_writers, cvVars, fairVars, semVars>>

\* ReadersWriterMonitor::get_state, under a lock_guard on monitor_mutex:
\* readers, writers, w_readers, w_writers.
MON_get_state ==
    /\ policy = "MON"
    /\ mtx = NoThread
    /\ snapshot' = <<reader_count, IF writer_active THEN 1 ELSE 0,
                     waiting_readers, waiting_writers>>
    /\ UNCHANGED <<policy, cohort, pc, budget, mtx, resource_mutex, reader_count,
                   writer_active, waiting_writers, cvVars, fairVars, semVars>>

\* FairReadersWriterLock::queue_size, under a lock_guard on mtx; reader() and
\* writer() call it before they call read_lock / write_lock.
FAIR_queue_size(t) ==
    /\ policy = "FAIR"
    /\ pc[t] = "idle" /\ CanIssue(t)
    /\ mtx = NoThread
    /\ snapshot' = <<Len(request_queue)>>
    /\ UNCHANGED <<policy, cohort, pc, budget, mtx, resource_mutex, reader_count,
                   writer_active, waiting_writers, cvVars, fairVars, semVars>>

InitSnapshot == policy \in {"MON", "FAIR"} /\ budget = [t \in Threads |-> Unlimited] /\ InitCommon
NextSnapshot ==
    \/ NextMON
    \/ NextFAIR
    \/ MON_get_state
    \/ \E t \in Threads : FAIR_queue_size(t)
SpecSnapshot == InitSnapshot /\ [][NextSnapshot]_vars

\* The fields the two queries report, as they are in the current state.
Reported ==
    IF policy = "MON"
    THEN <<reader_count, IF writer_active THEN 1 ELSE 0, waiting_readers, waiting_writers>>
    ELSE <<Len(request_queue)>>

\* C16: get_state and queue_size are read-only: a call leaves the counts,
\* writer_active, the waiting counts and the request queue unchanged, wakes
\* no waiter, and the values it returns are those of the one state it ran in.
C16_SnapshotReadOnly ==
    [][snapshot' # snapshot =>
          /\ UNCHANGED <<reader_count, active_readers, writer_active, waiting_readers,
                         waiting_writers, request_queue, granted, resource_mutex, mtx>>
          /\ UNCHANGED pc
          /\ snapshot' = Reported]_vars

\* C16 witness: get_state has reported a reader inside and a writer waiting,
\* or queue_size has reported a non-empty queue.
C16_Witness ==
    \/ policy = "MON" /\ Len(snapshot) = 4 /\ snapshot[1] > 0 /\ snapshot[4] > 0
                      /\ snapshot = Reported
    \/ policy = "FAIR" /\ Len(snapshot) = 1 /\ snapshot[1] > 0 /\ snapshot = Reported

\* -------------------------------------------- MON refines writer preference

\* What an observer of arrivals, admissions and releases sees of a thread:
\* a thread that was notified and has not yet re-checked is still waiting.
Phase == [t \in Threads |-> IF pc[t] = "r_woken" THEN "r_wait"
                            ELSE IF pc[t] = "w_woken" THEN "w_wait" ELSE pc[t]]

Observed == <<Phase, reader_count, writer_active, waiting_writers>>

\* The steps of the writer-preference lock of readers_writers_educational.cpp
\* in terms of Observed: a call of read_lock / write_lock that is admitted at
\* once or starts to wait, the admission of a waiting thread whose predicate
\* holds, and the two releases.
EDU_Observed(t) ==
    \/ /\ t \in Readers /\ Phase[t] = "idle"
       /\ IF EDU_ReadPred
          THEN reader_count' = reader_count + 1 /\ Phase' = [Phase EXCEPT ![t] = "reading"]
          ELSE reader_count' = reader_count /\ Phase' = [Phase EXCEPT ![t] = "r_wait"]
       /\ UNCHANGED <<writer_active, waiting_writers>>
    \/ /\ t \in Readers /\ Phase[t] = "r_wait"
       /\ EDU_ReadPred
       /\ reader_count' = reader_count + 1
       /\ Phase' = [Phase EXCEPT ![t] = "reading"]
       /\ UNCHANGED <<writer_active, waiting_writers>>
    \/ /\ t \in Readers /\ Phase[t] = "reading"
       /\ reader_count' = reader_count - 1
       /\ Phase' = [Phase EXCEPT ![t] = "idle"]
       /\ UNCHANGED <<writer_active, waiting_writers>>
    \/ /\ t \in Writers /\ Phase[t] = "idle"
       /\ IF EDU_WritePred
          THEN /\ writer_active' = TRUE
               /\ waiting_writers' = waiting_writers
               /\ Phase' = [Phase EXCEPT ![t] = "writing"]
          ELSE /\ writer_active' = writer_active
               /\ waiting_writers' = waiting_writers + 1
               /\ Phase' = [Phase EXCEPT ![t] = "w_wait"]
       /\ UNCHANGED reader_count
    \/ /\ t \in Writers /\ Phase[t] = "w_wait"
       /\ EDU_WritePred
       /\ writer_active' = TRUE
       /\ waiting_writers' = waiting_writers - 1
       /\ Phase' = [Phase EXCEPT ![t] = "writing"]
       /\ UNCHANGED reader_count
    \/ /\ t \in Writers /\ Phase[t] = "writing"
       /\ writer_active' = FALSE
       /\ Phase' = [Phase EXCEPT ![t] = "idle"]
       /\ UNCHANGED <<reader_count, waiting_writers>>

\* The monitor and the educational lock, side by side.
InitMonEdu == policy \in {"MON", "EDU"} /\ budget = [t \in Threads |-> Unlimited] /\ InitCommon
NextMonEdu == NextMON \/ NextEDU
SpecMonEdu == InitMonEdu /\ [][NextMonEdu]_vars

\* C17: the monitor refines writer preference: every step of the monitor that
\* an observer of arrivals, admissions and releases can see is a step of the
\* educational writer-preference lock from the same reader_count,
\* writer_active and waiting_writers to the same values (the educational
\* lock's own steps are exactly these).
C17_MonitorRefines ==
    [][\E t \in Threads : EDU_Observed(t)]_Observed

\* C17 witness: in the monitor both readers have been admitted and are inside
\* while a writer that called start_write waits for them.
C17_Witness ==
    /\ policy = "MON"
    /\ reader_count = 2
    /\ waiting_readers = 0
    /\ \E w \in Writers : pc[w] = "w_wait"

\* -------------------------------------------- FAIR: the WRITE grant

\* C18: FIFO fair: a WRITE request is marked granted only in a step that finds
\* it at the head of the queue with active_readers = 0 and writer_active
\* false; the step sets writer_active and removes that request, and only
\* that request, from the queue.
C18_WriteGrant ==
    [][policy = "FAIR" =>
        \A w \in Writers :
            (granted'[w] /\ ~granted[w]) =>
                /\ QueueIn # << >> /\ Head(QueueIn) = w
                /\ ReadersIn = 0
                /\ ~WriterIn
                /\ writer_active'
                /\ request_queue' = Tail(QueueIn)
                /\ active_readers' = 0
                /\ NewlyGranted = {w}]_vars

\* C18 witness: a WRITE that had to queue has been granted by a release while
\* another request stays queued behind it.
C18_Witness ==
    /\ policy = "FAIR"
    /\ \E w \in Writers : batch = {w} /\ granted[w] /\ pc[w] = "w_woken"
    /\ writer_active
    /\ request_queue # << >>

\* -------------------------------------------- FAIR: resource_mutex and the readers

\* C19: FIFO fair: while a reader group is admitted resource_mutex is locked
\* on its behalf, and the read_unlock that brings active_readers to 0 calls
\* resource_mutex.unlock() on a locked mutex.
C19_ReadersHoldResource ==
    /\ [](policy = "FAIR" /\ active_readers > 0 => resource_mutex # NoThread)
    /\ [][(policy = "FAIR" /\ ReadersIn = 0 /\ \E r \in Readers : Releases(r))
              => resource_mutex # NoThread]_vars

\* -------------------------------------------- SEM: the writer_waiting flag

\* Writer w is suspended in sem_wait(&write_mutex) of writer_lock.
SEM_WriterBlocked(w) == policy = "SEM" /\ pc[w] = "w_wmutex" /\ write_mutex = 0

\* C20: semaphore lock: writer_waiting is true whenever a writer is blocked in
\* writer_lock on write_mutex, and no reader increments reader_count while a
\* writer is blocked there.
C20_WriterWaitingFlag ==
    /\ [](\A w \in Writers : SEM_WriterBlocked(w) => writer_waiting)
    /\ [][(policy = "SEM" /\ reader_count' = reader_count + 1)
              => ~\E w \in Writers : SEM_WriterBlocked(w)]_vars

\* -------------------------------------------- SEM: circular waits

\* The semaphore whose sem_wait thread t has reached, "none" outside a call.
SEM_WaitsFor(t) ==
    IF pc[t] = "r_retry" THEN "read_mutex"
    ELSE IF pc[t] \in {"r_mutex", "w_mutex2"} THEN "mutex"
    ELSE IF pc[t] \in {"r_wmutex", "w_wmutex"} THEN "write_mutex"
    ELSE "none"

SEM_Value(s) == IF s = "mutex" THEN mutex
                ELSE IF s = "read_mutex" THEN read_mutex ELSE write_mutex

\* Thread t is suspended in a sem_wait.
SEM_Blocked(t) == SEM_WaitsFor(t) # "none" /\ SEM_Value(SEM_WaitsFor(t)) = 0

\* Thread u has taken semaphore s and is the one to post it: write_mutex is
\* taken by a writer, or by the first reader for the readers that counted
\* themselves in reader_count.
SEM_Holds(u, s) ==
    IF s = "mutex" THEN SEM_HoldsMutex(u)
    ELSE IF s = "read_mutex" THEN pc[u] \in {"r_mutex", "r_wmutex", "r_post", "r_post_read"}
    ELSE \/ u \in Writers /\ pc[u] \in {"w_mutex2", "w_post2", "writing"}
         \/ u \in Readers /\ pc[u] \in {"r_post", "r_post_read", "reading"} /\ ~should_wait[u]

\* A set of threads each suspended on a semaphore that only threads of the
\* set can post.
SEM_CircularWait(S) ==
    /\ S # {}
    /\ \A t \in S :
          /\ SEM_Blocked(t)
          /\ \E u \in S : SEM_Holds(u, SEM_WaitsFor(t))
          /\ \A u \in Threads : SEM_Holds(u, SEM_WaitsFor(t)) => u \in S

\* C21: semaphore lock: no reachable state has a set of threads each blocked
\* on a semaphore held by another thread of the set.
C21_DeadlockFree ==
    policy = "SEM" => ~\E S \in SUBSET Threads : SEM_CircularWait(S)

\* -------------------------------------------- SEM: reader_count

\* Reader r has been admitted by reader_lock and has not called reader_unlock:
\* it is inside, or has only its sem_post(&read_mutex) left before it returns.
SEM_ReaderIn(r) ==
    r \in Readers /\ (pc[r] = "reading" \/ (pc[r] = "r_post_read" /\ ~should_wait[r]))

\* C22: semaphore lock: whenever no thread is updating the bookkeeping ('mutex'
\* free) reader_count equals the number of readers inside, and reader_count
\* is 0 whenever a writer is inside its critical section.
C22_ReaderCountExact ==
    policy = "SEM" =>
        /\ mutex = 1 => reader_count = Cardinality({r \in Readers : SEM_ReaderIn(r)})
        /\ InWriteCS # {} => reader_count = 0

\* -------------------------------------------- SEM: the back-off of a reader

\* Reader r is in a reader_lock attempt that observed writer_waiting == true,
\* after the attempt's test of the flag.
SEM_BackingOff(r) ==
    /\ policy = "SEM" /\ r \in Readers
    /\ \/ pc[r] \in {"r_post", "r_post_read"} /\ should_wait[r]
       \/ pc[r] \in {"r_backoff", "r_retry"}

\* Reader r sleeps before its retry, or is about to retry.
SEM_Sleeping(r) == policy = "SEM" /\ pc[r] \in {"r_backoff", "r_retry"}

\* C23: semaphore lock: a reader_lock attempt that observes writer_waiting
\* changes neither reader_count nor write_mutex nor writer_waiting, and when
\* the reader sleeps and retries it has posted 'mutex' and read_mutex again:
\* each of the two is 1 unless another thread has taken it.
C23_BackOffFrame ==
    /\ [][\A r \in Readers :
             (pc'[r] # pc[r] /\ SEM_BackingOff(r)') =>
                 /\ reader_count' = reader_count
                 /\ write_mutex' = write_mutex
                 /\ writer_waiting' = writer_waiting]_vars
    /\ [](\A r \in Readers : SEM_Sleeping(r) =>
             /\ mutex = 1 - Cardinality({u \in Threads \ {r} : SEM_Holds(u, "mutex")})
             /\ read_mutex = 1 - Cardinality({u \in Threads \ {r} : SEM_Holds(u, "read_mutex")}))

\* C23 witness: a reader sleeps in its back-off while a writer is blocked on
\* write_mutex, and no semaphore but write_mutex is taken.
C23_Witness ==
    /\ policy = "SEM"
    /\ \E r \in Readers : pc[r] = "r_backoff" /\ should_wait[r]
    /\ \E w \in Writers : SEM_WriterBlocked(w) /\ writer_waiting
    /\ mutex = 1 /\ read_mutex = 1 /\ write_mutex = 0


\* -------------------------------------------- MON: who is signalled

\* The threads this step takes out of a condition variable wait.
WokenNow == {u \in Threads : pc[u] \in {"r_wait", "w_wait"} /\ pc'[u] = Woken(pc[u])}

\* C24: monitor wake rule.  end_write with waiting_writers > 0 signals one
\* writer (the one it wakes, if any writer is in the wait) and no reader; with
\* waiting_writers = 0 and waiting_readers > 0 it wakes every waiting reader;
\* end_read signals one writer only when it makes reader_count 0 with
\* waiting_writers > 0, and never a reader.
C24_WakeRule ==
    [][policy = "MON" =>
        /\ \A w \in Writers : Releases(w) =>
              /\ waiting_writers > 0 =>
                    /\ WokenNow \subseteq WaitingWriters
                    /\ Cardinality(WokenNow) = IF WaitingWriters = {} THEN 0 ELSE 1
              /\ waiting_writers = 0 =>
                    WokenNow = IF waiting_readers > 0 THEN WaitingReaders ELSE {}
        /\ \A r \in Readers : Releases(r) =>
              /\ WokenNow \subseteq WaitingWriters
              /\ Cardinality(WokenNow) =
                    IF reader_count' = 0 /\ waiting_writers > 0 /\ WaitingWriters # {}
                    THEN 1 ELSE 0]_vars

\* C24 witness: end_write has just woken the one waiting writer and left a
\* waiting reader in its wait.
C24_Witness ==
    /\ policy = "MON"
    /\ ~writer_active /\ reader_count = 0
    /\ \E w \in Writers : pc[w] = "w_woken"
    /\ \E r \in Readers : pc[r] = "r_wait"
    /\ waiting_writers = 1 /\ waiting_readers > 0


\* -------------------------------------------- MON: progress

\* Every step thread t can take in readers_writers_monitor.cpp, a spurious
\* wakeup excepted: the scheduler runs every thread that can run.
MON_Step(t) ==
    \/ MON_start_read(t)
    \/ MON_read_recheck(t)
    \/ MON_end_read(t)
    \/ MON_start_write(t)
    \/ MON_write_recheck(t)
    \/ MON_end_write(t)

InitMONFin == policy = "MON" /\ budget = [t \in Threads |-> MaxReq] /\ InitCommon
SpecMONFair == InitMONFin /\ [][NextMON]_vars /\ \A t \in Threads : SF_vars(MON_Step(t))

\* Thread t sits in its condition variable wait although the monitor is free,
\* its loop condition is false and no notified thread has yet to run.
MON_LostWakeup(t) ==
    /\ policy = "MON"
    /\ \/ pc[t] = "r_wait" /\ ~MON_ReadMustWait
       \/ pc[t] = "w_wait" /\ ~MON_WriteMustWait
    /\ reader_count = 0 /\ ~writer_active
    /\ \A u \in Threads : pc[u] \notin {"r_woken", "w_woken"}

\* C25: monitor, finitely many requests per thread, every admitted thread
\* releases, fair scheduling: every thread blocked in start_read or
\* start_write is eventually admitted, and no wakeup is lost.
C25_MonitorProgress ==
    /\ \A t \in Threads : InAcquire(t) ~> Admitted(t)
    /\ [](\A t \in Threads : ~MON_LostWakeup(t))

\* C25 witness: a reader and a writer wait behind a writer that is inside.
C25_Witness ==
    /\ policy = "MON"
    /\ writer_active
    /\ \E r \in Readers : pc[r] = "r_wait"
    /\ \E w \in Writers : pc[w] = "w_wait"


\* -------------------------------------------- RP: the waiting writers

\* Reader preference with finitely many requests per thread (so that from
\* some point on no reader arrives), every thread running whenever it can.
InitRPFin == policy = "RP" /\ budget = [t \in Threads |-> MaxReq] /\ InitCommon
SpecRPFair == InitRPFin /\ [][NextRP]_vars /\ \A t \in Threads : SF_vars(RP_Step(t))

\* C26: reader preference, no reader arriving from some point on, every
\* admitted thread releasing, fair scheduling: every writer that waits on
\* writer_cv is eventually admitted and returns from write_lock.
C26_WriterNoLostWakeup ==
    \A w \in Writers : WriterWaiting(w) ~> (pc[w] = "writing")


\* -------------------------------------------- RP: late readers

\* Reader r evaluates the wait predicate of read_lock in this step.
RP_ReaderChecks(r) == policy = "RP" /\ pc[r] \in {"idle", "r_woken"} /\ pc'[r] # pc[r]

\* C27: reader preference: a reader that evaluates the predicate of read_lock
\* is admitted exactly when writer_active is false, whether or not writers
\* wait; so a reader that calls read_lock after a writer started to wait can
\* be admitted before that writer.
C27_LateReaderFirst ==
    [][\A r \in Readers :
          RP_ReaderChecks(r) => (pc'[r] \in {"r_reslock", "reading"} <=> ~writer_active)]_vars

\* C27 witness: writer w is in its first write_lock and waits, no other writer
\* has called yet (so no reader ever had to wait), and reader r has just been
\* admitted as first reader: it still holds mtx, which w needed to start
\* waiting, so r called read_lock after w was waiting.
C27_Witness ==
    /\ policy = "RP"
    /\ \E w \in Writers, r \in Readers :
          /\ WriterWaiting(w) /\ budget[w] = MaxReq - 1
          /\ \A v \in Writers \ {w} : pc[v] = "idle" /\ budget[v] = MaxReq
          /\ pc[r] = "r_reslock" /\ mtx = r


\* -------------------------------------------- FAIR: the life of a request

\* C28: FIFO fair request lifecycle: a request enters the queue only in the
\* step of its arrival and at most once; its granted flag turns true only in
\* a step that also removes it from the queue, and stays true until its owner
\* releases; the queue holds only ungranted requests, each once, each owned
\* by a thread that waits.
C28_RequestLifecycle ==
    /\ [](policy = "FAIR" =>
            /\ \A i, j \in 1..Len(request_queue) :
                   request_queue[i] = request_queue[j] => i = j
            /\ \A u \in Range(request_queue) : ~granted[u] /\ pc[u] \in {"r_wait", "w_wait", "r_woken", "w_woken"})
    /\ [][policy = "FAIR" =>
            \A u \in Threads :
               /\ (u \in Range(request_queue') /\ u \notin Range(request_queue)) => Arrives(u)
               /\ Arrives(u) => (~granted[u] /\ u \notin Range(request_queue)
                                 /\ (granted'[u] <=> u \notin Range(request_queue')))
               /\ (granted'[u] /\ ~granted[u]) =>
                      (u \in Range(QueueIn) /\ u \notin Range(request_queue'))
               /\ (granted[u] /\ ~granted'[u]) => Releases(u)
               /\ (u \in Range(request_queue) /\ u \notin Range(request_queue')) => granted'[u]]_vars

\* C28 witness: a granted request has left the queue while two ungranted
\* requests are queued behind it.
C28_Witness ==
    /\ policy = "FAIR"
    /\ Len(request_queue) >= 2
    /\ \E u \in Threads : granted[u] /\ u \in batch /\ pc[u] \in {"r_woken", "w_woken"}


\* -------------------------------------------- FAIR: work conservation

\* The request at the head of the queue could be granted as the fields stand.
HeadEligible ==
    /\ request_queue # << >>
    /\ IF IsRead(Head(request_queue))
       THEN ~writer_active
       ELSE active_readers = 0 /\ ~writer_active

\* C29: FIFO fair is work-conserving: whenever no lock or unlock operation is
\* in progress (mtx free) the head of the queue is not eligible.
C29_WorkConserving ==
    (policy = "FAIR" /\ mtx = NoThread) => ~HeadEligible

\* C29 witness: after a completed operation a READ heads a queue of two
\* requests and has to wait for the writer that is active.
C29_Witness ==
    /\ policy = "FAIR" /\ mtx = NoThread
    /\ Len(request_queue) >= 2
    /\ IsRead(Head(request_queue))
    /\ writer_active


\* -------------------------------------------- FAIR: active_readers

\* The readers whose READ request has been granted and who have not run
\* read_unlock: inside, or granted and not yet back from the wait.
GrantedReaders ==
    {r \in Readers : pc[r] = "reading" \/ (pc[r] \in {"r_wait", "r_woken"} /\ granted[r])}

\* C30: FIFO fair: active_readers equals the number of granted READ requests
\* whose owner has not yet executed read_unlock, and no WRITE is granted while
\* such a reader exists.
C30_ReaderAccounting ==
    /\ [](policy = "FAIR" => active_readers = Cardinality(GrantedReaders))
    /\ [][policy = "FAIR" =>
            \A w \in Writers : (granted'[w] /\ ~granted[w]) => GrantedReaders' = {}]_vars

\* C30 witness: one reader is inside and another has been granted but has not
\* yet returned from its wait; both are counted.
C30_Witness ==
    /\ policy = "FAIR"
    /\ active_readers = 2
    /\ \E r \in Readers : pc[r] = "reading"
    /\ \E r \in Readers : pc[r] = "r_woken" /\ granted[r]


\* -------------------------------------------- the waiting counters

\* C31: the waiting counters are exact.  In readers_writers.cpp waiting_writers
\* is the number of writers inside write_lock and not yet admitted; in the
\* monitor waiting_writers and waiting_readers are the numbers of threads
\* inside start_write / start_read and not yet admitted; none is negative.
C31_WaitingCountersExact ==
    LET blockedWriters == {u \in Writers : pc[u] \in {"w_wait", "w_woken"}}
    IN  /\ policy = "WP" => waiting_writers = Cardinality(blockedWriters)
        /\ policy = "MON" =>
              /\ waiting_writers = Cardinality(blockedWriters)
              /\ waiting_readers = Cardinality(BlockedReaders)
        /\ waiting_writers >= 0 /\ waiting_readers >= 0

\* C31 witness: in the monitor a reader and a writer are both counted as
\* waiting, one of them already notified; or in readers_writers.cpp two
\* writers are counted.
C31_Witness ==
    \/ /\ policy = "MON"
       /\ waiting_readers >= 1 /\ waiting_writers >= 1
       /\ \E u \in Threads : pc[u] \in {"r_woken", "w_woken"}
    \/ policy = "WP" /\ waiting_writers = 2


\* -------------------------------------------- who unlocks resource_mutex

\* C32: readers_writers.cpp and readers_writers_readers_priority.cpp:
\* resource_mutex is unlocked only by the thread that locked it.  A thread
\* calls resource_mutex.unlock() in the read_unlock that brings reader_count
\* to 0 and in the second part of write_unlock.
C32_OwnerUnlocks ==
    [][\A t \in Threads :
          ( /\ policy \in {"WP", "RP"}
            /\ \/ t \in Readers /\ pc[t] = "reading" /\ pc'[t] = "idle"
                  /\ reader_count' = 0
               \/ t \in Writers /\ pc[t] = "w_resunlock"
                  /\ pc'[t] # "w_resunlock" )
          => resource_mutex = t]_vars


\* -------------------------------------------- blocked on resource_mutex

\* Both locks that nest resource_mutex, finitely many requests per thread,
\* every thread running whenever it can.
InitNestedFin == policy \in {"WP", "RP"} /\ budget = [t \in Threads |-> MaxReq] /\ InitCommon
NextNested == NextWP \/ NextRP
SpecNestedFair ==
    /\ InitNestedFin
    /\ [][NextNested]_vars
    /\ \A t \in Threads : SF_vars(WP_Step(t)) /\ SF_vars(RP_Step(t))

\* C33: readers_writers.cpp and readers_writers_readers_priority.cpp: a
\* thread blocked in resource_mutex.lock() (it has called it and not yet
\* returned from it) is always eventually unblocked.
C33_ResourceLockReturns ==
    \A t \in Threads : (pc[t] \in {"r_reslock", "w_reslock"}) ~> Admitted(t)


\* ------------------------------------------------------------ quiescence

\* C34: readers_writers.cpp, readers_writers_monitor.cpp and
\* readers_writers_fair.cpp: whenever every thread is outside the lock and no
\* request is pending, the lock's fields have the values the constructors
\* give them (counts 0, writer_active false, queue empty, resource_mutex
\* free), and the next read or write request issued from there is admitted
\* without blocking.
C34_QuiescenceRestoresInit ==
    /\ []( ( /\ policy \in {"WP", "MON", "FAIR"}
             /\ \A t \in Threads : pc[t] = "idle" )
           => /\ reader_count = 0 /\ active_readers = 0
              /\ writer_active = FALSE
              /\ waiting_writers = 0 /\ waiting_readers = 0
              /\ request_queue = << >>
              /\ resource_mutex = NoThread
              /\ mtx = NoThread )
    /\ [][( /\ policy \in {"WP", "MON", "FAIR"}
            /\ \A t \in Threads : pc[t] = "idle" )
          => (\A t \in Threads : Arrives(t) => ~BlockedInAcquire(t)')]_vars

====
